---------------------------- MODULE Spec2Model ----------------------------
(***************************************************************************)
(* A model of app.py, the Pierce County ACS quick-pull dashboard:          *)
(* geo_clause, the lru_cache around fetch, the cache around get_labels,    *)
(* select_vars, pull_detailed, pull_simple and the handler of the Run      *)
(* button, with the Census API as a nondeterministic environment.          *)
(*                                                                         *)
(* Two specifications share the variables:                                 *)
(*   Spec        the dashboard: Streamlit executes app.py on every         *)
(*               interaction; the user changes widgets or presses Run, and *)
(*               the handler pulls one indicator per step;                 *)
(*   SpecSelect  select_vars applied to drawn metadata, fragments, flags.  *)
(***************************************************************************)
EXTENDS Integers, Sequences, FiniteSets, TLC

(***************************************************************************)
(* Text.  A Python str is modelled as the sequence of the code points of   *)
(* its characters, so that substring tests, suffix tests, replace, strip,  *)
(* split and the regular expression of pull_detailed are computed          *)
(* character by character, as Python computes them, on any str.  The       *)
(* literals of the program are written with Text, one character per        *)
(* element; the two non-ASCII characters that occur in them are written    *)
(* "<U+2265>" (greater-than or equal to) and "<U+2013>" (en dash).         *)
(***************************************************************************)

\* The printable ASCII characters, chr(32) to chr(126); the grave accent,
\* chr(96), is written "<U+0060>".
Printable ==
    << " ", "!", "\"", "#", "$", "%", "&", "'", "(", ")", "*", "+", ",", "-", ".",
       "/", "0", "1", "2", "3", "4", "5", "6", "7", "8", "9", ":", ";", "<", "=",
       ">", "?", "@", "A", "B", "C", "D", "E", "F", "G", "H", "I", "J", "K", "L",
       "M", "N", "O", "P", "Q", "R", "S", "T", "U", "V", "W", "X", "Y", "Z", "[",
       "\\", "]", "^", "_", "<U+0060>", "a", "b", "c", "d", "e", "f", "g", "h", "i", "j",
       "k", "l", "m", "n", "o", "p", "q", "r", "s", "t", "u", "v", "w", "x", "y",
       "z", "{", "|", "}", "~" >>

\* ord(c) for a character written in this module.
ord(c) ==
    IF c = "\t" THEN 9
    ELSE IF c = "<U+2013>" THEN 8211
    ELSE IF c = "<U+2265>" THEN 8805
    ELSE 31 + CHOOSE k \in 1..Len(Printable) : Printable[k] = c

\* The str whose characters are written in q.
Text(q) ==
    [k \in 1..Len(q) |-> ord(q[k])]


\* ---- SETTINGS (app.py lines 11-14) ----

\* "f6ba77c8a37e5c068c2d7a0020f3b56899318771"
API_KEY ==
    Text(<<"f","6","b","a","7","7","c","8","a","3","7","e","5","c","0","6","8","c","2","d","7",
           "a","0","0","2","0","f","3","b","5","6","8","9","9","3","1","8","7","7","1">>)

\* "2023"  the int 2023 as the f-strings format it
YEAR ==
    Text(<<"2","0","2","3">>)

\* STATE of line 13; STATE is a reserved word of TLA+.

\* "53"
STATE_ ==
    Text(<<"5","3">>)

\* "053"
PIERCE ==
    Text(<<"0","5","3">>)

\* ---- geography levels of the selectbox (app.py lines 113-114) ----

\* "County (Pierce)"
LEVEL_COUNTY ==
    Text(<<"C","o","u","n","t","y"," ","(","P","i","e","r","c","e",")">>)

\* "Tract (Pierce)"
LEVEL_TRACT ==
    Text(<<"T","r","a","c","t"," ","(","P","i","e","r","c","e",")">>)

\* "ZCTA (custom list)"
LEVEL_ZCTA ==
    Text(<<"Z","C","T","A"," ","(","c","u","s","t","o","m"," ","l","i","s","t",")">>)

\* ---- BASE_VARS keys, codes and datasets (app.py lines 17-27) ----

\* "HS diploma 25+ (%)"
IND_HS ==
    Text(<<"H","S"," ","d","i","p","l","o","m","a"," ","2","5","+"," ","(","%",")">>)

\* "DP02_0062PE"
CODE_HS ==
    Text(<<"D","P","0","2","_","0","0","6","2","P","E">>)

\* "Disability (%)"
IND_DISABILITY ==
    Text(<<"D","i","s","a","b","i","l","i","t","y"," ","(","%",")">>)

\* "S1810_C02_001E"
CODE_DISABILITY ==
    Text(<<"S","1","8","1","0","_","C","0","2","_","0","0","1","E">>)

\* "Speak English < very well (%)"
IND_ENGLISH ==
    Text(<<"S","p","e","a","k"," ","E","n","g","l","i","s","h"," ","<"," ","v","e","r","y"," ",
           "w","e","l","l"," ","(","%",")">>)

\* "DP02_0110PE"
CODE_ENGLISH ==
    Text(<<"D","P","0","2","_","0","1","1","0","P","E">>)

\* "Poverty <100% FPL (%)"
IND_POVERTY ==
    Text(<<"P","o","v","e","r","t","y"," ","<","1","0","0","%"," ","F","P","L"," ","(","%",")">>)

\* "S1701_C03_001E"
CODE_POVERTY ==
    Text(<<"S","1","7","0","1","_","C","0","3","_","0","0","1","E">>)

\* "Median household income ($)"
IND_INCOME ==
    Text(<<"M","e","d","i","a","n"," ","h","o","u","s","e","h","o","l","d"," ","i","n","c","o",
           "m","e"," ","(","$",")">>)

\* "S1901_C01_012E"
CODE_INCOME ==
    Text(<<"S","1","9","0","1","_","C","0","1","_","0","1","2","E">>)

\* "Housing cost <U+2265>30% income (%)"
IND_HOUSING ==
    Text(<<"H","o","u","s","i","n","g"," ","c","o","s","t"," ","<U+2265>","3","0","%"," ","i",
           "n","c","o","m","e"," ","(","%",")">>)

\* "DP04_0138PE"
CODE_HOUSING ==
    Text(<<"D","P","0","4","_","0","1","3","8","P","E">>)

\* "Unemployment rate 16+ (%)"
IND_UNEMPLOYMENT ==
    Text(<<"U","n","e","m","p","l","o","y","m","e","n","t"," ","r","a","t","e"," ","1","6","+",
           " ","(","%",")">>)

\* "S2301_C04_001E"
CODE_UNEMPLOYMENT ==
    Text(<<"S","2","3","0","1","_","C","0","4","_","0","0","1","E">>)

\* "Households with no vehicle (%)"
IND_VEHICLE ==
    Text(<<"H","o","u","s","e","h","o","l","d","s"," ","w","i","t","h"," ","n","o"," ","v","e",
           "h","i","c","l","e"," ","(","%",")">>)

\* "DP04_0058PE"
CODE_VEHICLE ==
    Text(<<"D","P","0","4","_","0","0","5","8","P","E">>)

\* "Insurance coverage (%)"
IND_INSURANCE ==
    Text(<<"I","n","s","u","r","a","n","c","e"," ","c","o","v","e","r","a","g","e"," ","(","%",
           ")">>)

\* "S2701_C03_001E"
CODE_INSURANCE ==
    Text(<<"S","2","7","0","1","_","C","0","3","_","0","0","1","E">>)

\* "profile"
DS_PROFILE ==
    Text(<<"p","r","o","f","i","l","e">>)

\* "subject"
DS_SUBJECT ==
    Text(<<"s","u","b","j","e","c","t">>)

\* ---- DETAILED group ids, label fragments, universe keywords (lines 31-36) ----

\* "S1810"
GROUP_DISABILITY ==
    Text(<<"S","1","8","1","0">>)

\* "With a disability"
FRAG_DISABILITY ==
    Text(<<"W","i","t","h"," ","a"," ","d","i","s","a","b","i","l","i","t","y">>)

\* "S1701"
GROUP_POVERTY ==
    Text(<<"S","1","7","0","1">>)

\* "Below poverty level"
FRAG_POVERTY ==
    Text(<<"B","e","l","o","w"," ","p","o","v","e","r","t","y"," ","l","e","v","e","l">>)

\* "S2301"
GROUP_UNEMPLOYMENT ==
    Text(<<"S","2","3","0","1">>)

\* "Unemployment rate"
FRAG_UNEMPLOYMENT ==
    Text(<<"U","n","e","m","p","l","o","y","m","e","n","t"," ","r","a","t","e">>)

\* "S2701"
GROUP_INSURANCE ==
    Text(<<"S","2","7","0","1">>)

\* "No health insurance coverage"
FRAG_INSURANCE ==
    Text(<<"N","o"," ","h","e","a","l","t","h"," ","i","n","s","u","r","a","n","c","e"," ","c",
           "o","v","e","r","a","g","e">>)

\* "civilian"
UNIVERSE_CIVILIAN ==
    Text(<<"c","i","v","i","l","i","a","n">>)

\* "population"
UNIVERSE_POPULATION ==
    Text(<<"p","o","p","u","l","a","t","i","o","n">>)

\* ---- string literals of the functions ----

\* "for=county:"  geo_clause, line 43
LIT_FOR_COUNTY ==
    Text(<<"f","o","r","=","c","o","u","n","t","y",":">>)

\* "&in=state:"  geo_clause, line 43
LIT_IN_STATE ==
    Text(<<"&","i","n","=","s","t","a","t","e",":">>)

\* "for=tract:*&in=state:"  geo_clause, line 45
LIT_FOR_TRACT ==
    Text(<<"f","o","r","=","t","r","a","c","t",":","*","&","i","n","=","s","t","a","t","e",":">>)

\* "%20county:"  geo_clause, line 45
LIT_PCT20_COUNTY ==
    Text(<<"%","2","0","c","o","u","n","t","y",":">>)

\* "for=zip%20code%20tabulation%20area:"  geo_clause, line 47
LIT_FOR_ZCTA ==
    Text(<<"f","o","r","=","z","i","p","%","2","0","c","o","d","e","%","2","0","t","a","b","u",
           "l","a","t","i","o","n","%","2","0","a","r","e","a",":">>)

\* "https://api.census.gov/data/"  lines 61, 91, 105
LIT_DATA_ROOT ==
    Text(<<"h","t","t","p","s",":","/","/","a","p","i",".","c","e","n","s","u","s",".","g","o",
           "v","/","d","a","t","a","/">>)

\* "/acs/acs5/"  line 105
LIT_ACS5 ==
    Text(<<"/","a","c","s","/","a","c","s","5","/">>)

\* "/acs/acs5/subject"  line 91
LIT_ACS5_SUBJECT ==
    Text(<<"/","a","c","s","/","a","c","s","5","/","s","u","b","j","e","c","t">>)

\* "/acs/acs5/subject/groups/"  line 61
LIT_GROUPS ==
    Text(<<"/","a","c","s","/","a","c","s","5","/","s","u","b","j","e","c","t","/","g","r","o",
           "u","p","s","/">>)

\* ".json"  line 61
LIT_JSON ==
    Text(<<".","j","s","o","n">>)

\* "?get=NAME,"  lines 92, 106
LIT_GET_NAME ==
    Text(<<"?","g","e","t","=","N","A","M","E",",">>)

\* "&"  lines 92, 106
LIT_AMP ==
    Text(<<"&">>)

\* "&key="  lines 92, 106
LIT_KEY ==
    Text(<<"&","k","e","y","=">>)

\* ","  line 92
LIT_COMMA ==
    Text(<<",">>)

\* "E"  select_vars, line 71
LIT_E ==
    Text(<<"E">>)

\* "!!AGE!!"  select_vars, line 77
LIT_AGE ==
    Text(<<"!","!","A","G","E","!","!">>)

\* "!!SEX!!"  select_vars, line 78
LIT_SEX ==
    Text(<<"!","!","S","E","X","!","!">>)

\* "!!RACE"  select_vars, line 79
LIT_RACE ==
    Text(<<"!","!","R","A","C","E">>)

\* "!!ETHNICITY"  select_vars, line 79
LIT_ETHNICITY ==
    Text(<<"!","!","E","T","H","N","I","C","I","T","Y">>)

\* "_001E"  select_vars, line 84
LIT_001E ==
    Text(<<"_","0","0","1","E">>)

\* "Estimate!!"  pull_detailed, line 98
LIT_ESTIMATE ==
    Text(<<"E","s","t","i","m","a","t","e","!","!">>)

\* "!!"  pull_detailed, line 98
LIT_BANGS ==
    Text(<<"!","!">>)

\* " <U+2013> "  pull_detailed, line 100
LIT_DASH ==
    Text(<<" ","<U+2013>"," ">>)

\* " ("  run handler, line 147
LIT_OPEN ==
    Text(<<" ","(">>)

\* ")"  run handler, line 147
LIT_CLOSE ==
    Text(<<")">>)

\* "NAME"  the NAME column every request asks for
COL_NAME ==
    Text(<<"N","A","M","E">>)

\* "state"  geography column of the API's answer
COL_STATE ==
    Text(<<"s","t","a","t","e">>)

\* "county"  geography column of the API's answer
COL_COUNTY ==
    Text(<<"c","o","u","n","t","y">>)

\* "tract"  geography column of the API's answer
COL_TRACT ==
    Text(<<"t","r","a","c","t">>)

\* "zip code tabulation area"  geography column of the API's answer
COL_ZCTA ==
    Text(<<"z","i","p"," ","c","o","d","e"," ","t","a","b","u","l","a","t","i","o","n"," ","a",
           "r","e","a">>)

(***************************************************************************)
(* str operations, as Python computes them.                                *)
(***************************************************************************)

\* The characters str.strip() with no argument removes: those for which
\* str.isspace() is true.
Whitespace ==
    (9..13) \cup (28..32) \cup {133, 160, 5760} \cup (8192..8202)
        \cup {8232, 8233, 8239, 8287, 12288}

\* The ranges of the characters the class \w of a str pattern matches: the
\* alphanumeric characters of Unicode and the underscore.
WordRanges ==
    { <<48, 57>>, <<65, 90>>, <<95, 95>>, <<97, 122>>, <<170, 170>>,
       <<178, 179>>, <<181, 181>>, <<185, 186>>, <<188, 190>>, <<192, 214>>,
       <<216, 246>>, <<248, 705>>, <<710, 721>>, <<736, 740>>, <<748, 748>>,
       <<750, 750>>, <<880, 884>>, <<886, 887>>, <<890, 893>>, <<895, 895>>,
       <<902, 902>>, <<904, 906>>, <<908, 908>>, <<910, 929>>, <<931, 1013>>,
       <<1015, 1153>>, <<1162, 1327>>, <<1329, 1366>>, <<1369, 1369>>,
       <<1376, 1416>>, <<1488, 1514>>, <<1519, 1522>>, <<1568, 1610>>,
       <<1632, 1641>>, <<1646, 1647>>, <<1649, 1747>>, <<1749, 1749>>,
       <<1765, 1766>>, <<1774, 1788>>, <<1791, 1791>>, <<1808, 1808>>,
       <<1810, 1839>>, <<1869, 1957>>, <<1969, 1969>>, <<1984, 2026>>,
       <<2036, 2037>>, <<2042, 2042>>, <<2048, 2069>>, <<2074, 2074>>,
       <<2084, 2084>>, <<2088, 2088>>, <<2112, 2136>>, <<2144, 2154>>,
       <<2160, 2183>>, <<2185, 2190>>, <<2208, 2249>>, <<2308, 2361>>,
       <<2365, 2365>>, <<2384, 2384>>, <<2392, 2401>>, <<2406, 2415>>,
       <<2417, 2432>>, <<2437, 2444>>, <<2447, 2448>>, <<2451, 2472>>,
       <<2474, 2480>>, <<2482, 2482>>, <<2486, 2489>>, <<2493, 2493>>,
       <<2510, 2510>>, <<2524, 2525>>, <<2527, 2529>>, <<2534, 2545>>,
       <<2548, 2553>>, <<2556, 2556>>, <<2565, 2570>>, <<2575, 2576>>,
       <<2579, 2600>>, <<2602, 2608>>, <<2610, 2611>>, <<2613, 2614>>,
       <<2616, 2617>>, <<2649, 2652>>, <<2654, 2654>>, <<2662, 2671>>,
       <<2674, 2676>>, <<2693, 2701>>, <<2703, 2705>>, <<2707, 2728>>,
       <<2730, 2736>>, <<2738, 2739>>, <<2741, 2745>>, <<2749, 2749>>,
       <<2768, 2768>>, <<2784, 2785>>, <<2790, 2799>>, <<2809, 2809>>,
       <<2821, 2828>>, <<2831, 2832>>, <<2835, 2856>>, <<2858, 2864>>,
       <<2866, 2867>>, <<2869, 2873>>, <<2877, 2877>>, <<2908, 2909>>,
       <<2911, 2913>>, <<2918, 2927>>, <<2929, 2935>>, <<2947, 2947>>,
       <<2949, 2954>>, <<2958, 2960>>, <<2962, 2965>>, <<2969, 2970>>,
       <<2972, 2972>>, <<2974, 2975>>, <<2979, 2980>>, <<2984, 2986>>,
       <<2990, 3001>>, <<3024, 3024>>, <<3046, 3058>>, <<3077, 3084>>,
       <<3086, 3088>>, <<3090, 3112>>, <<3114, 3129>>, <<3133, 3133>>,
       <<3160, 3162>>, <<3165, 3165>>, <<3168, 3169>>, <<3174, 3183>>,
       <<3192, 3198>>, <<3200, 3200>>, <<3205, 3212>>, <<3214, 3216>>,
       <<3218, 3240>>, <<3242, 3251>>, <<3253, 3257>>, <<3261, 3261>>,
       <<3293, 3294>>, <<3296, 3297>>, <<3302, 3311>>, <<3313, 3314>>,
       <<3332, 3340>>, <<3342, 3344>>, <<3346, 3386>>, <<3389, 3389>>,
       <<3406, 3406>>, <<3412, 3414>>, <<3416, 3425>>, <<3430, 3448>>,
       <<3450, 3455>>, <<3461, 3478>>, <<3482, 3505>>, <<3507, 3515>>,
       <<3517, 3517>>, <<3520, 3526>>, <<3558, 3567>>, <<3585, 3632>>,
       <<3634, 3635>>, <<3648, 3654>>, <<3664, 3673>>, <<3713, 3714>>,
       <<3716, 3716>>, <<3718, 3722>>, <<3724, 3747>>, <<3749, 3749>>,
       <<3751, 3760>>, <<3762, 3763>>, <<3773, 3773>>, <<3776, 3780>>,
       <<3782, 3782>>, <<3792, 3801>>, <<3804, 3807>>, <<3840, 3840>>,
       <<3872, 3891>>, <<3904, 3911>>, <<3913, 3948>>, <<3976, 3980>>,
       <<4096, 4138>>, <<4159, 4169>>, <<4176, 4181>>, <<4186, 4189>>,
       <<4193, 4193>>, <<4197, 4198>>, <<4206, 4208>>, <<4213, 4225>>,
       <<4238, 4238>>, <<4240, 4249>>, <<4256, 4293>>, <<4295, 4295>>,
       <<4301, 4301>>, <<4304, 4346>>, <<4348, 4680>>, <<4682, 4685>>,
       <<4688, 4694>>, <<4696, 4696>>, <<4698, 4701>>, <<4704, 4744>>,
       <<4746, 4749>>, <<4752, 4784>>, <<4786, 4789>>, <<4792, 4798>>,
       <<4800, 4800>>, <<4802, 4805>>, <<4808, 4822>>, <<4824, 4880>>,
       <<4882, 4885>>, <<4888, 4954>>, <<4969, 4988>>, <<4992, 5007>>,
       <<5024, 5109>>, <<5112, 5117>>, <<5121, 5740>>, <<5743, 5759>>,
       <<5761, 5786>>, <<5792, 5866>>, <<5870, 5880>>, <<5888, 5905>>,
       <<5919, 5937>>, <<5952, 5969>>, <<5984, 5996>>, <<5998, 6000>>,
       <<6016, 6067>>, <<6103, 6103>>, <<6108, 6108>>, <<6112, 6121>>,
       <<6128, 6137>>, <<6160, 6169>>, <<6176, 6264>>, <<6272, 6276>>,
       <<6279, 6312>>, <<6314, 6314>>, <<6320, 6389>>, <<6400, 6430>>,
       <<6470, 6509>>, <<6512, 6516>>, <<6528, 6571>>, <<6576, 6601>>,
       <<6608, 6618>>, <<6656, 6678>>, <<6688, 6740>>, <<6784, 6793>>,
       <<6800, 6809>>, <<6823, 6823>>, <<6917, 6963>>, <<6981, 6988>>,
       <<6992, 7001>>, <<7043, 7072>>, <<7086, 7141>>, <<7168, 7203>>,
       <<7232, 7241>>, <<7245, 7293>>, <<7296, 7304>>, <<7312, 7354>>,
       <<7357, 7359>>, <<7401, 7404>>, <<7406, 7411>>, <<7413, 7414>>,
       <<7418, 7418>>, <<7424, 7615>>, <<7680, 7957>>, <<7960, 7965>>,
       <<7968, 8005>>, <<8008, 8013>>, <<8016, 8023>>, <<8025, 8025>>,
       <<8027, 8027>>, <<8029, 8029>>, <<8031, 8061>>, <<8064, 8116>>,
       <<8118, 8124>>, <<8126, 8126>>, <<8130, 8132>>, <<8134, 8140>>,
       <<8144, 8147>>, <<8150, 8155>>, <<8160, 8172>>, <<8178, 8180>>,
       <<8182, 8188>>, <<8304, 8305>>, <<8308, 8313>>, <<8319, 8329>>,
       <<8336, 8348>>, <<8450, 8450>>, <<8455, 8455>>, <<8458, 8467>>,
       <<8469, 8469>>, <<8473, 8477>>, <<8484, 8484>>, <<8486, 8486>>,
       <<8488, 8488>>, <<8490, 8493>>, <<8495, 8505>>, <<8508, 8511>>,
       <<8517, 8521>>, <<8526, 8526>>, <<8528, 8585>>, <<9312, 9371>>,
       <<9450, 9471>>, <<10102, 10131>>, <<11264, 11492>>, <<11499, 11502>>,
       <<11506, 11507>>, <<11517, 11517>>, <<11520, 11557>>, <<11559, 11559>>,
       <<11565, 11565>>, <<11568, 11623>>, <<11631, 11631>>, <<11648, 11670>>,
       <<11680, 11686>>, <<11688, 11694>>, <<11696, 11702>>, <<11704, 11710>>,
       <<11712, 11718>>, <<11720, 11726>>, <<11728, 11734>>, <<11736, 11742>>,
       <<11823, 11823>>, <<12293, 12295>>, <<12321, 12329>>, <<12337, 12341>>,
       <<12344, 12348>>, <<12353, 12438>>, <<12445, 12447>>, <<12449, 12538>>,
       <<12540, 12543>>, <<12549, 12591>>, <<12593, 12686>>, <<12690, 12693>>,
       <<12704, 12735>>, <<12784, 12799>>, <<12832, 12841>>, <<12872, 12879>>,
       <<12881, 12895>>, <<12928, 12937>>, <<12977, 12991>>, <<13312, 19903>>,
       <<19968, 42124>>, <<42192, 42237>>, <<42240, 42508>>, <<42512, 42539>>,
       <<42560, 42606>>, <<42623, 42653>>, <<42656, 42735>>, <<42775, 42783>>,
       <<42786, 42888>>, <<42891, 42954>>, <<42960, 42961>>, <<42963, 42963>>,
       <<42965, 42969>>, <<42994, 43009>>, <<43011, 43013>>, <<43015, 43018>>,
       <<43020, 43042>>, <<43056, 43061>>, <<43072, 43123>>, <<43138, 43187>>,
       <<43216, 43225>>, <<43250, 43255>>, <<43259, 43259>>, <<43261, 43262>>,
       <<43264, 43301>>, <<43312, 43334>>, <<43360, 43388>>, <<43396, 43442>>,
       <<43471, 43481>>, <<43488, 43492>>, <<43494, 43518>>, <<43520, 43560>>,
       <<43584, 43586>>, <<43588, 43595>>, <<43600, 43609>>, <<43616, 43638>>,
       <<43642, 43642>>, <<43646, 43695>>, <<43697, 43697>>, <<43701, 43702>>,
       <<43705, 43709>>, <<43712, 43712>>, <<43714, 43714>>, <<43739, 43741>>,
       <<43744, 43754>>, <<43762, 43764>>, <<43777, 43782>>, <<43785, 43790>>,
       <<43793, 43798>>, <<43808, 43814>>, <<43816, 43822>>, <<43824, 43866>>,
       <<43868, 43881>>, <<43888, 44002>>, <<44016, 44025>>, <<44032, 55203>>,
       <<55216, 55238>>, <<55243, 55291>>, <<63744, 64109>>, <<64112, 64217>>,
       <<64256, 64262>>, <<64275, 64279>>, <<64285, 64285>>, <<64287, 64296>>,
       <<64298, 64310>>, <<64312, 64316>>, <<64318, 64318>>, <<64320, 64321>>,
       <<64323, 64324>>, <<64326, 64433>>, <<64467, 64829>>, <<64848, 64911>>,
       <<64914, 64967>>, <<65008, 65019>>, <<65136, 65140>>, <<65142, 65276>>,
       <<65296, 65305>>, <<65313, 65338>>, <<65345, 65370>>, <<65382, 65470>>,
       <<65474, 65479>>, <<65482, 65487>>, <<65490, 65495>>, <<65498, 65500>>,
       <<65536, 65547>>, <<65549, 65574>>, <<65576, 65594>>, <<65596, 65597>>,
       <<65599, 65613>>, <<65616, 65629>>, <<65664, 65786>>, <<65799, 65843>>,
       <<65856, 65912>>, <<65930, 65931>>, <<66176, 66204>>, <<66208, 66256>>,
       <<66273, 66299>>, <<66304, 66339>>, <<66349, 66378>>, <<66384, 66421>>,
       <<66432, 66461>>, <<66464, 66499>>, <<66504, 66511>>, <<66513, 66517>>,
       <<66560, 66717>>, <<66720, 66729>>, <<66736, 66771>>, <<66776, 66811>>,
       <<66816, 66855>>, <<66864, 66915>>, <<66928, 66938>>, <<66940, 66954>>,
       <<66956, 66962>>, <<66964, 66965>>, <<66967, 66977>>, <<66979, 66993>>,
       <<66995, 67001>>, <<67003, 67004>>, <<67072, 67382>>, <<67392, 67413>>,
       <<67424, 67431>>, <<67456, 67461>>, <<67463, 67504>>, <<67506, 67514>>,
       <<67584, 67589>>, <<67592, 67592>>, <<67594, 67637>>, <<67639, 67640>>,
       <<67644, 67644>>, <<67647, 67669>>, <<67672, 67702>>, <<67705, 67742>>,
       <<67751, 67759>>, <<67808, 67826>>, <<67828, 67829>>, <<67835, 67867>>,
       <<67872, 67897>>, <<67968, 68023>>, <<68028, 68047>>, <<68050, 68096>>,
       <<68112, 68115>>, <<68117, 68119>>, <<68121, 68149>>, <<68160, 68168>>,
       <<68192, 68222>>, <<68224, 68255>>, <<68288, 68295>>, <<68297, 68324>>,
       <<68331, 68335>>, <<68352, 68405>>, <<68416, 68437>>, <<68440, 68466>>,
       <<68472, 68497>>, <<68521, 68527>>, <<68608, 68680>>, <<68736, 68786>>,
       <<68800, 68850>>, <<68858, 68899>>, <<68912, 68921>>, <<69216, 69246>>,
       <<69248, 69289>>, <<69296, 69297>>, <<69376, 69415>>, <<69424, 69445>>,
       <<69457, 69460>>, <<69488, 69505>>, <<69552, 69579>>, <<69600, 69622>>,
       <<69635, 69687>>, <<69714, 69743>>, <<69745, 69746>>, <<69749, 69749>>,
       <<69763, 69807>>, <<69840, 69864>>, <<69872, 69881>>, <<69891, 69926>>,
       <<69942, 69951>>, <<69956, 69956>>, <<69959, 69959>>, <<69968, 70002>>,
       <<70006, 70006>>, <<70019, 70066>>, <<70081, 70084>>, <<70096, 70106>>,
       <<70108, 70108>>, <<70113, 70132>>, <<70144, 70161>>, <<70163, 70187>>,
       <<70272, 70278>>, <<70280, 70280>>, <<70282, 70285>>, <<70287, 70301>>,
       <<70303, 70312>>, <<70320, 70366>>, <<70384, 70393>>, <<70405, 70412>>,
       <<70415, 70416>>, <<70419, 70440>>, <<70442, 70448>>, <<70450, 70451>>,
       <<70453, 70457>>, <<70461, 70461>>, <<70480, 70480>>, <<70493, 70497>>,
       <<70656, 70708>>, <<70727, 70730>>, <<70736, 70745>>, <<70751, 70753>>,
       <<70784, 70831>>, <<70852, 70853>>, <<70855, 70855>>, <<70864, 70873>>,
       <<71040, 71086>>, <<71128, 71131>>, <<71168, 71215>>, <<71236, 71236>>,
       <<71248, 71257>>, <<71296, 71338>>, <<71352, 71352>>, <<71360, 71369>>,
       <<71424, 71450>>, <<71472, 71483>>, <<71488, 71494>>, <<71680, 71723>>,
       <<71840, 71922>>, <<71935, 71942>>, <<71945, 71945>>, <<71948, 71955>>,
       <<71957, 71958>>, <<71960, 71983>>, <<71999, 71999>>, <<72001, 72001>>,
       <<72016, 72025>>, <<72096, 72103>>, <<72106, 72144>>, <<72161, 72161>>,
       <<72163, 72163>>, <<72192, 72192>>, <<72203, 72242>>, <<72250, 72250>>,
       <<72272, 72272>>, <<72284, 72329>>, <<72349, 72349>>, <<72368, 72440>>,
       <<72704, 72712>>, <<72714, 72750>>, <<72768, 72768>>, <<72784, 72812>>,
       <<72818, 72847>>, <<72960, 72966>>, <<72968, 72969>>, <<72971, 73008>>,
       <<73030, 73030>>, <<73040, 73049>>, <<73056, 73061>>, <<73063, 73064>>,
       <<73066, 73097>>, <<73112, 73112>>, <<73120, 73129>>, <<73440, 73458>>,
       <<73648, 73648>>, <<73664, 73684>>, <<73728, 74649>>, <<74752, 74862>>,
       <<74880, 75075>>, <<77712, 77808>>, <<77824, 78894>>, <<82944, 83526>>,
       <<92160, 92728>>, <<92736, 92766>>, <<92768, 92777>>, <<92784, 92862>>,
       <<92864, 92873>>, <<92880, 92909>>, <<92928, 92975>>, <<92992, 92995>>,
       <<93008, 93017>>, <<93019, 93025>>, <<93027, 93047>>, <<93053, 93071>>,
       <<93760, 93846>>, <<93952, 94026>>, <<94032, 94032>>, <<94099, 94111>>,
       <<94176, 94177>>, <<94179, 94179>>, <<94208, 100343>>, <<100352, 101589>>,
       <<101632, 101640>>, <<110576, 110579>>, <<110581, 110587>>,
       <<110589, 110590>>, <<110592, 110882>>, <<110928, 110930>>,
       <<110948, 110951>>, <<110960, 111355>>, <<113664, 113770>>,
       <<113776, 113788>>, <<113792, 113800>>, <<113808, 113817>>,
       <<119520, 119539>>, <<119648, 119672>>, <<119808, 119892>>,
       <<119894, 119964>>, <<119966, 119967>>, <<119970, 119970>>,
       <<119973, 119974>>, <<119977, 119980>>, <<119982, 119993>>,
       <<119995, 119995>>, <<119997, 120003>>, <<120005, 120069>>,
       <<120071, 120074>>, <<120077, 120084>>, <<120086, 120092>>,
       <<120094, 120121>>, <<120123, 120126>>, <<120128, 120132>>,
       <<120134, 120134>>, <<120138, 120144>>, <<120146, 120485>>,
       <<120488, 120512>>, <<120514, 120538>>, <<120540, 120570>>,
       <<120572, 120596>>, <<120598, 120628>>, <<120630, 120654>>,
       <<120656, 120686>>, <<120688, 120712>>, <<120714, 120744>>,
       <<120746, 120770>>, <<120772, 120779>>, <<120782, 120831>>,
       <<122624, 122654>>, <<123136, 123180>>, <<123191, 123197>>,
       <<123200, 123209>>, <<123214, 123214>>, <<123536, 123565>>,
       <<123584, 123627>>, <<123632, 123641>>, <<124896, 124902>>,
       <<124904, 124907>>, <<124909, 124910>>, <<124912, 124926>>,
       <<124928, 125124>>, <<125127, 125135>>, <<125184, 125251>>,
       <<125259, 125259>>, <<125264, 125273>>, <<126065, 126123>>,
       <<126125, 126127>>, <<126129, 126132>>, <<126209, 126253>>,
       <<126255, 126269>>, <<126464, 126467>>, <<126469, 126495>>,
       <<126497, 126498>>, <<126500, 126500>>, <<126503, 126503>>,
       <<126505, 126514>>, <<126516, 126519>>, <<126521, 126521>>,
       <<126523, 126523>>, <<126530, 126530>>, <<126535, 126535>>,
       <<126537, 126537>>, <<126539, 126539>>, <<126541, 126543>>,
       <<126545, 126546>>, <<126548, 126548>>, <<126551, 126551>>,
       <<126553, 126553>>, <<126555, 126555>>, <<126557, 126557>>,
       <<126559, 126559>>, <<126561, 126562>>, <<126564, 126564>>,
       <<126567, 126570>>, <<126572, 126578>>, <<126580, 126583>>,
       <<126585, 126588>>, <<126590, 126590>>, <<126592, 126601>>,
       <<126603, 126619>>, <<126625, 126627>>, <<126629, 126633>>,
       <<126635, 126651>>, <<127232, 127244>>, <<130032, 130041>>,
       <<131072, 173791>>, <<173824, 177976>>, <<177984, 178205>>,
       <<178208, 183969>>, <<183984, 191456>>, <<194560, 195101>>,
       <<196608, 201546>> }

\* The characters the regular expression class \w matches.
WordChars ==
    UNION {r[1]..r[2] : r \in WordRanges}

\* s[i:], with i a 1-based position (the empty string past the end).
From(s, i) ==
    IF i > Len(s) THEN << >> ELSE SubSeq(s, i, Len(s))

\* s[i:].startswith(p), with i a 1-based position.
StartsAt(s, p, i) ==
    /\ i + Len(p) - 1 <= Len(s)
    /\ \A j \in 1..Len(p) : s[i + j - 1] = p[j]

\* p in s
Contains(s, p) ==
    \E i \in 1..(Len(s) - Len(p) + 1) : StartsAt(s, p, i)

\* s.endswith(p)
EndsWith(s, p) ==
    /\ Len(p) <= Len(s)
    /\ StartsAt(s, p, Len(s) - Len(p) + 1)

\* s.replace(c, "") for a one-character c.
RemoveChar(s, c) ==
    SelectSeq(s, LAMBDA x : x # c)

\* s.lstrip()
RECURSIVE LStrip(_)
LStrip(s) ==
    IF s # << >> /\ Head(s) \in Whitespace THEN LStrip(Tail(s)) ELSE s

\* s.rstrip()
RECURSIVE RStrip(_)
RStrip(s) ==
    IF s # << >> /\ s[Len(s)] \in Whitespace
    THEN RStrip(SubSeq(s, 1, Len(s) - 1))
    ELSE s

\* s.strip()
Strip(s) ==
    RStrip(LStrip(s))

\* s.split(c)[0] for a one-character c: the text before the first c.
RECURSIVE SplitHead(_, _)
SplitHead(s, c) ==
    IF s = << >> \/ Head(s) = c THEN << >>
    ELSE <<Head(s)>> \o SplitHead(Tail(s), c)

\* sep.join(parts)
RECURSIVE Join(_, _)
Join(sep, parts) ==
    IF parts = << >> THEN << >>
    ELSE IF Len(parts) = 1 THEN parts[1]
    ELSE parts[1] \o sep \o Join(sep, Tail(parts))

\* The length of the longest run of \w characters of s that starts at i.
RECURSIVE WordRun(_, _)
WordRun(s, i) ==
    IF i <= Len(s) /\ s[i] \in WordChars THEN 1 + WordRun(s, i + 1) ELSE 0

\* The length of the match of  Estimate!!|\w+!!  at position i of s, 0 when
\* there is none.  The first alternative is tried first; in the second \w+ is
\* greedy and no shorter run can be followed by "!!", "!" being no \w.
MatchLen(s, i) ==
    IF StartsAt(s, LIT_ESTIMATE, i) THEN Len(LIT_ESTIMATE)
    ELSE LET w == WordRun(s, i)
         IN  IF w > 0 /\ StartsAt(s, LIT_BANGS, i + w) THEN w + Len(LIT_BANGS) ELSE 0

\* re.sub(r"Estimate!!|\w+!!", "", s) from position i on: leftmost matches,
\* not overlapping, each replaced by the empty string.
RECURSIVE ReSubFrom(_, _)
ReSubFrom(s, i) ==
    IF i > Len(s) THEN << >>
    ELSE LET m == MatchLen(s, i)
         IN  IF m > 0 THEN ReSubFrom(s, i + m) ELSE <<s[i]>> \o ReSubFrom(s, i + 1)

\* re.sub(r"Estimate!!|\w+!!", "", s).strip()
CleanLabel(s) ==
    Strip(ReSubFrom(s, 1))

\* Whether a sequence has no repeated element.
Distinct(q) ==
    \A i, j \in 1..Len(q) : q[i] = q[j] => i = j

\* The elements of a sequence.
Range(q) ==
    {q[i] : i \in 1..Len(q)}

(***************************************************************************)
(* The tables of the program.  A dict is a sequence of entries in          *)
(* insertion order, with distinct keys.                                    *)
(***************************************************************************)

BASE_VARS ==
    << [lab |-> IND_HS,           code |-> CODE_HS,           ds |-> DS_PROFILE],
       [lab |-> IND_DISABILITY,   code |-> CODE_DISABILITY,   ds |-> DS_SUBJECT],
       [lab |-> IND_ENGLISH,      code |-> CODE_ENGLISH,      ds |-> DS_PROFILE],
       [lab |-> IND_POVERTY,      code |-> CODE_POVERTY,      ds |-> DS_SUBJECT],
       [lab |-> IND_INCOME,       code |-> CODE_INCOME,       ds |-> DS_SUBJECT],
       [lab |-> IND_HOUSING,      code |-> CODE_HOUSING,      ds |-> DS_PROFILE],
       [lab |-> IND_UNEMPLOYMENT, code |-> CODE_UNEMPLOYMENT, ds |-> DS_SUBJECT],
       [lab |-> IND_VEHICLE,      code |-> CODE_VEHICLE,      ds |-> DS_PROFILE],
       [lab |-> IND_INSURANCE,    code |-> CODE_INSURANCE,    ds |-> DS_SUBJECT] >>

DETAILED ==
    << [lab |-> IND_DISABILITY,   group |-> GROUP_DISABILITY,
        frag |-> FRAG_DISABILITY,   universe |-> UNIVERSE_CIVILIAN],
       [lab |-> IND_POVERTY,      group |-> GROUP_POVERTY,
        frag |-> FRAG_POVERTY,      universe |-> UNIVERSE_POPULATION],
       [lab |-> IND_UNEMPLOYMENT, group |-> GROUP_UNEMPLOYMENT,
        frag |-> FRAG_UNEMPLOYMENT, universe |-> UNIVERSE_POPULATION],
       [lab |-> IND_INSURANCE,    group |-> GROUP_INSURANCE,
        frag |-> FRAG_INSURANCE,    universe |-> UNIVERSE_CIVILIAN] >>

\* BASE_VARS[ind]
BaseOf(ind) ==
    CHOOSE e \in Range(BASE_VARS) : e.lab = ind

\* ind in DETAILED
InDetailed(ind) ==
    \E e \in Range(DETAILED) : e.lab = ind

\* DETAILED[ind]
DetailedOf(ind) ==
    CHOOSE e \in Range(DETAILED) : e.lab = ind

(***************************************************************************)
(* geo_clause.  The result is None or a str: [some |-> FALSE] is None.     *)
(***************************************************************************)

None ==
    [some |-> FALSE, val |-> << >>]

Some(s) ==
    [some |-> TRUE, val |-> s]

\* Python truthiness of a str-or-None: None and "" are false.
Truthy(o) ==
    o.some /\ o.val # << >>

geo_clause(level, zcta_list) ==
    IF level = LEVEL_COUNTY
    THEN Some(LIT_FOR_COUNTY \o PIERCE \o LIT_IN_STATE \o STATE_)
    ELSE IF level = LEVEL_TRACT
    THEN Some(LIT_FOR_TRACT \o STATE_ \o LIT_PCT20_COUNTY \o PIERCE)
    ELSE LET zips == RemoveChar(zcta_list, ord(" "))
         IN  IF zips # << >> THEN Some(LIT_FOR_ZCTA \o zips) ELSE None

(***************************************************************************)
(* The Census API, as the program's environment.  An answer to a GET is a  *)
(* status, whether the body is JSON of the shape the caller indexes, and   *)
(* the body: for a data request the header row j[0] and a tag standing for *)
(* the rows j[1:]; for a metadata request the "variables" object as a      *)
(* sequence of [code, label] entries in the order of the JSON object.      *)
(***************************************************************************)

\* requests: Response.raise_for_status() raises for 4xx and 5xx.
IsErrorStatus(status) ==
    status >= 400 /\ status < 600

\* The slip of keeping the last occurrence of a repeated column name.
DropDuplicatedKeepLast(cols) ==
    LET keep(k) == \A j \in (k + 1)..Len(cols) : cols[j].name # cols[k].name
        F[k \in 0..Len(cols)] ==
            IF k = 0 THEN << >>
            ELSE IF keep(k) THEN Append(F[k - 1], cols[k]) ELSE F[k - 1]
    IN  F[Len(cols)]

\* df.loc[:, ~df.columns.duplicated()]: the columns whose name has not
\* occurred at an earlier position.
DropDuplicated(cols) ==
    LET keep(k) == \A j \in 1..(k - 1) : cols[j].name # cols[k].name
        F[k \in 0..Len(cols)] ==
            IF k = 0 THEN << >>
            ELSE IF keep(k) THEN Append(F[k - 1], cols[k]) ELSE F[k - 1]
    IN  F[Len(cols)]

\* pd.DataFrame(j[1:], columns=j[0]): one column per header entry; the data
\* of column k is the k-th entry of every row of this answer.
DataFrame(header, tag) ==
    [k \in 1..Len(header) |-> [name |-> header[k], data |-> <<tag, k>>]]

\* The body of fetch (lines 52-56) on the answer r: the exception, or the
\* table.
fetch(r) ==
    IF IsErrorStatus(r.status) \/ ~r.wellformed
    THEN [raised |-> TRUE, df |-> << >>]
    ELSE [raised |-> FALSE, df |-> DropDuplicated(DataFrame(r.header, r.tag))]

\* The body of get_labels (lines 61-63) on the answer r: there is no
\* raise_for_status, so only a body that is not JSON, has no "variables" or a
\* variable without "label" raises.
get_labels(r) ==
    IF ~r.wellformed
    THEN [raised |-> TRUE, labels |-> << >>]
    ELSE [raised |-> FALSE, labels |-> r.variables]

\* f"https://api.census.gov/data/{YEAR}/acs/acs5/subject/groups/{group_id}.json"
meta_url(group_id) ==
    LIT_DATA_ROOT \o YEAR \o LIT_GROUPS \o group_id \o LIT_JSON

(***************************************************************************)
(* functools.lru_cache(maxsize=256) and functools.cache.  A cache is the   *)
(* sequence of its entries [key, value], least recently used first.        *)
(***************************************************************************)

\* @lru_cache(maxsize=256)
maxsize ==
    256

CacheHas(cache, key) ==
    \E k \in 1..Len(cache) : cache[k].key = key

CacheGet(cache, key) ==
    (CHOOSE e \in Range(cache) : e.key = key).value

\* A hit makes the entry the most recently used one.
CacheTouch(cache, key) ==
    SelectSeq(cache, LAMBDA e : e.key # key)
        \o SelectSeq(cache, LAMBDA e : e.key = key)

\* A miss whose call returned stores the result; a full cache first drops its
\* least recently used entry.
CacheInsert(cache, key, value, size) ==
    IF Len(cache) >= size
    THEN Append(Tail(cache), [key |-> key, value |-> value])
    ELSE Append(cache, [key |-> key, value |-> value])

\* fetch(url) through its lru_cache, the API answering r if it is asked:
\* whether a request went out, whether the call raised, the table, and the
\* cache afterwards.
fetch_cached(cache, url, r) ==
    IF CacheHas(cache, url)
    THEN [http |-> FALSE, raised |-> FALSE, df |-> CacheGet(cache, url),
          cache |-> CacheTouch(cache, url)]
    ELSE LET res == fetch(r)
         IN  IF res.raised
             THEN [http |-> TRUE, raised |-> TRUE, df |-> << >>, cache |-> cache]
             ELSE [http |-> TRUE, raised |-> FALSE, df |-> res.df,
                   cache |-> CacheInsert(cache, url, res.df, maxsize)]

\* get_labels(group_id) through its unbounded cache, the API answering r if
\* it is asked.
get_labels_cached(cache, group_id, r) ==
    IF CacheHas(cache, group_id)
    THEN [http |-> FALSE, raised |-> FALSE, labels |-> CacheGet(cache, group_id),
          cache |-> cache]
    ELSE LET res == get_labels(r)
         IN  IF res.raised
             THEN [http |-> TRUE, raised |-> TRUE, labels |-> << >>, cache |-> cache]
             ELSE [http |-> TRUE, raised |-> FALSE, labels |-> res.labels,
                   cache |-> Append(cache, [key |-> group_id, value |-> res.labels])]

(***************************************************************************)
(* select_vars, on the mapping get_labels returned.  A mapping is the      *)
(* sequence of its [code, label] entries in the order of the dict.         *)
(***************************************************************************)

\* var in labels
HasCode(labels, var) ==
    \E k \in 1..Len(labels) : labels[k].code = var

\* labels[var]
LabelOf(labels, var) ==
    (CHOOSE e \in Range(labels) : e.code = var).label

\* The slip of keeping a variable whatever its axis.
KeepAny(lab, want_age, want_sex, want_race) ==
    want_age \/ want_sex \/ want_race

\* Lines 76-79: keep, after the three tests in their order.
Keep(lab, want_age, want_sex, want_race) ==
    \/ want_age /\ Contains(lab, LIT_AGE)
    \/ want_sex /\ Contains(lab, LIT_SEX)
    \/ want_race /\ (Contains(lab, LIT_RACE) \/ Contains(lab, LIT_ETHNICITY))

\* Lines 69-81: the loop over labels.items().
Matching(labels, measure_fragment, want_age, want_sex, want_race) ==
    LET ok(e) == /\ EndsWith(e.code, LIT_E)
                 /\ Contains(e.label, measure_fragment)
                 /\ Keep(e.label, want_age, want_sex, want_race)
        sel == SelectSeq(labels, ok)
    IN  [k \in 1..Len(sel) |-> sel[k].code]

\* The slip of returning the matches as they are, empty or not.
select_vars_no_fallback(labels, group_id, measure_fragment, want_age, want_sex, want_race) ==
    Matching(labels, measure_fragment, want_age, want_sex, want_race)

\* Line 84: out or [f"{group_id}_001E"].
select_vars(labels, group_id, measure_fragment, want_age, want_sex, want_race) ==
    LET out == Matching(labels, measure_fragment, want_age, want_sex, want_race)
    IN  IF out # << >> THEN out ELSE << group_id \o LIT_001E >>

(***************************************************************************)
(* The request URLs and the renaming of columns.                           *)
(***************************************************************************)

\* pull_detailed, lines 91-92.
detailed_url(vars_wanted, geo) ==
    LIT_DATA_ROOT \o YEAR \o LIT_ACS5_SUBJECT
        \o LIT_GET_NAME \o Join(LIT_COMMA, vars_wanted) \o LIT_AMP \o geo
        \o LIT_KEY \o API_KEY

\* pull_simple, lines 105-106.
simple_url(code, dataset, geo) ==
    LIT_DATA_ROOT \o YEAR \o LIT_ACS5 \o dataset
        \o LIT_GET_NAME \o code \o LIT_AMP \o geo \o LIT_KEY \o API_KEY

\* indicator.split('(')[0].strip()
ShortName(indicator) ==
    Strip(SplitHead(indicator, ord("(")))

\* Lines 98-100, for one variable: f"{short name} – {cleaned label}".
DetailedName(indicator, label) ==
    ShortName(indicator) \o LIT_DASH \o CleanLabel(label)

\* df.rename(columns=rename) of pull_detailed: a column named by a wanted
\* variable takes that variable's new name.
RenameDetailed(df, indicator, labels, vars_wanted) ==
    [k \in 1..Len(df) |->
        IF df[k].name \in Range(vars_wanted)
        THEN [df[k] EXCEPT !.name = DetailedName(indicator, LabelOf(labels, df[k].name))]
        ELSE df[k]]

\* Lines 147-150: a column named by a BASE_VARS code becomes
\* f"{lab} ({code})".
RenameBase(df) ==
    [k \in 1..Len(df) |->
        IF \E e \in Range(BASE_VARS) : e.code = df[k].name
        THEN LET e == CHOOSE e \in Range(BASE_VARS) : e.code = df[k].name
             IN  [df[k] EXCEPT !.name = e.lab \o LIT_OPEN \o e.code \o LIT_CLOSE]
        ELSE df[k]]

\* pd.concat(frames, axis=1): the columns of the frames, one frame after the
\* other.
RECURSIVE Concat(_)
Concat(frames) ==
    IF frames = << >> THEN << >> ELSE Head(frames) \o Concat(Tail(frames))

\* Lines 143-150: concatenate, drop repeated column names, rename the base
\* codes.
Assemble(frames) ==
    RenameBase(DropDuplicated(Concat(frames)))

(***************************************************************************)
(* The inputs the specifications draw from.                                *)
(***************************************************************************)

\* ---- what a user may have typed into the ZCTA text input ----

\* ""
ZCTA_EMPTY ==
    << >>

\* "  "
ZCTA_SPACES ==
    Text(<<" "," ">>)

\* "\t"
ZCTA_TAB ==
    Text(<<"\t">>)

\* " 98402, 98403"
ZCTA_TWO ==
    Text(<<" ","9","8","4","0","2",","," ","9","8","4","0","3">>)

\* ---- suffixes of variable codes and pieces of labels of a subject group ----

\* "_C02_002E"
SUF_SEX ==
    Text(<<"_","C","0","2","_","0","0","2","E">>)

\* "_C02_004E"
SUF_RACE ==
    Text(<<"_","C","0","2","_","0","0","4","E">>)

\* "_C02_013E"
SUF_AGE ==
    Text(<<"_","C","0","2","_","0","1","3","E">>)

\* "_C02_013M"
SUF_AGE_MOE ==
    Text(<<"_","C","0","2","_","0","1","3","M">>)

\* "_C01_013E"
SUF_TOTAL_AGE ==
    Text(<<"_","C","0","1","_","0","1","3","E">>)

\* "_C02_001E"
SUF_OVERALL ==
    Text(<<"_","C","0","2","_","0","0","1","E">>)

\* "_C02_010E"
SUF_ETHNICITY ==
    Text(<<"_","C","0","2","_","0","1","0","E">>)

\* "_C02_003E"
SUF_AGE_SEX ==
    Text(<<"_","C","0","2","_","0","0","3","E">>)

\* "Margin of Error!!"
LAB_MOE ==
    Text(<<"M","a","r","g","i","n"," ","o","f"," ","E","r","r","o","r","!","!">>)

\* "!!SEX!!Male"
LAB_SEX_MALE ==
    Text(<<"!","!","S","E","X","!","!","M","a","l","e">>)

\* "!!RACE AND HISPANIC OR LATINO ORIGIN!!White alone"
LAB_RACE_WHITE ==
    Text(<<"!","!","R","A","C","E"," ","A","N","D"," ","H","I","S","P","A","N","I","C"," ","O",
           "R"," ","L","A","T","I","N","O"," ","O","R","I","G","I","N","!","!","W","h","i","t",
           "e"," ","a","l","o","n","e">>)

\* "!!AGE!!Under 5 years"
LAB_AGE_UNDER5 ==
    Text(<<"!","!","A","G","E","!","!","U","n","d","e","r"," ","5"," ","y","e","a","r","s">>)

\* "Estimate!!Total"
LAB_TOTAL ==
    Text(<<"E","s","t","i","m","a","t","e","!","!","T","o","t","a","l">>)

\* "!!ETHNICITY!!Hispanic or Latino"
LAB_ETHNICITY ==
    Text(<<"!","!","E","T","H","N","I","C","I","T","Y","!","!","H","i","s","p","a","n","i","c",
           " ","o","r"," ","L","a","t","i","n","o">>)

\* "!!AGE!!SEX!!Male"
LAB_AGE_SEX_MALE ==
    Text(<<"!","!","A","G","E","!","!","S","E","X","!","!","M","a","l","e">>)

\* The [code, label] entries a subject group's metadata is drawn from, in the
\* shape of the Census labels: Estimate!!{measure}!!{AXIS}!!{category}.
Pool(group_id, frag) ==
    << [code |-> group_id \o SUF_AGE,       label |-> LIT_ESTIMATE \o frag \o LAB_AGE_UNDER5],
       [code |-> group_id \o SUF_SEX,       label |-> LIT_ESTIMATE \o frag \o LAB_SEX_MALE],
       [code |-> group_id \o SUF_RACE,      label |-> LIT_ESTIMATE \o frag \o LAB_RACE_WHITE],
       [code |-> group_id \o SUF_AGE_MOE,   label |-> LAB_MOE \o frag \o LAB_AGE_UNDER5],
       [code |-> group_id \o SUF_TOTAL_AGE, label |-> LAB_TOTAL \o LAB_AGE_UNDER5],
       [code |-> group_id \o SUF_OVERALL,   label |-> LIT_ESTIMATE \o frag],
       [code |-> group_id \o LIT_001E,      label |-> LAB_TOTAL],
       [code |-> group_id \o SUF_ETHNICITY, label |-> LIT_ESTIMATE \o frag \o LAB_ETHNICITY],
       [code |-> group_id \o SUF_AGE_SEX,   label |-> LIT_ESTIMATE \o frag \o LAB_AGE_SEX_MALE] >>

\* The "variables" objects the metadata endpoint may answer with for a group:
\* one with an age row, a sex row, a margin-of-error row and the overall row
\* but no race row and no {group_id}_001E; one that has {group_id}_001E and
\* two sex rows whose cleaned labels coincide, and no race row either.
MetaBodies(group_id, frag) ==
    LET P == Pool(group_id, frag)
    IN  { << P[1], P[2], P[4], P[6] >>,
          << P[7], P[2], P[9] >> }

\* HTTP statuses the API may answer with.
Statuses ==
    {200, 500}

\* The shapes of an answer to a data request: the status, whether the body is
\* a JSON array of rows, and whether the header row repeats NAME at its end:
\* a success with or without the repeated column, an error status, and a
\* success status with a malformed body.
DataShapes ==
    {s \in [status : Statuses, wellformed : BOOLEAN, repeat : BOOLEAN] :
        /\ s.repeat => (s.status = 200 /\ s.wellformed)
        /\ ~s.wellformed => s.status = 200}

\* The geography columns the API appends to the header row.
GeoColumns(level) ==
    IF level = LEVEL_COUNTY THEN << COL_STATE, COL_COUNTY >>
    ELSE IF level = LEVEL_TRACT THEN << COL_STATE, COL_COUNTY, COL_TRACT >>
    ELSE << COL_ZCTA >>

\* The answer of the given shape to get=NAME,{vars}&{geo}: the header row is
\* NAME, the variables asked for and the geography columns; tag stands for
\* the rows.
DataAnswer(shape, vars, level, tag) ==
    [status |-> shape.status, wellformed |-> shape.wellformed, tag |-> tag,
     header |-> << COL_NAME >> \o vars \o GeoColumns(level)
                    \o (IF shape.repeat THEN << COL_NAME >> ELSE << >>)]

\* The answers to a metadata request for a group.
MetaAnswers(group_id, frag) ==
    [status : Statuses, wellformed : {TRUE}, variables : MetaBodies(group_id, frag)]
        \cup [status : {200}, wellformed : {FALSE}, variables : {<< >>}]

\* Whether an answer is a non-success status or a malformed body.
IsBadAnswer(r) ==
    IsErrorStatus(r.status) \/ ~r.wellformed

(***************************************************************************)
(* pull_simple and pull_detailed, as functions of the caches they read and *)
(* the answers the API gives if it is asked.  The result says what the     *)
(* call raised ("" when it returned), the table, the caches afterwards,    *)
(* the URLs appended to URL_HITS, and the HTTP requests issued in their    *)
(* order.                                                                  *)
(***************************************************************************)

\* One HTTP request, as issued: its kind, its URL and whether the answer was
\* a non-success status or a malformed body.
Request(kind, url, r) ==
    [kind |-> kind, url |-> url, bad |-> IsBadAnswer(r)]

\* Lines 104-108.  The API answers one request with the same rows whenever
\* it is asked, so the variables asked for stand for the rows.
pull_simple(code, dataset, geo_val, level, fcache, shape) ==
    LET url == simple_url(code, dataset, geo_val)
        r   == DataAnswer(shape, << code >>, level, << code >>)
        f   == fetch_cached(fcache, url, r)
    IN  [raised |-> IF f.raised THEN "FetchError" ELSE "",
         df     |-> f.df,
         fcache |-> f.cache,
         hits   |-> << url >>,
         http   |-> IF f.http THEN << Request("data", url, r) >> ELSE << >>]

\* Lines 87-101.  rm answers a metadata request, shape is the shape of the
\* answer to the data request.
pull_detailed(indicator, geo_val, level, wa, ws, wr, lcache, fcache, rm, shape) ==
    LET d    == DetailedOf(indicator)
        m1   == get_labels_cached(lcache, d.group, rm)
        req1 == IF m1.http THEN << Request("meta", meta_url(d.group), rm) >> ELSE << >>
    IN  IF m1.raised
        THEN [raised |-> "MetadataError", df |-> << >>, fcache |-> fcache,
              lcache |-> m1.cache, hits |-> << >>, http |-> req1,
              vars |-> << >>]
        ELSE
        LET vars == select_vars(m1.labels, d.group, d.frag, wa, ws, wr)
            url  == detailed_url(vars, geo_val)
            r    == DataAnswer(shape, vars, level, vars)
            f    == fetch_cached(fcache, url, r)
            req2 == IF f.http THEN << Request("data", url, r) >> ELSE << >>
        IN  IF f.raised
            THEN [raised |-> "FetchError", df |-> << >>, fcache |-> f.cache,
                  lcache |-> m1.cache, hits |-> << url >>, http |-> req1 \o req2,
                  vars |-> vars]
            ELSE
            LET m2   == get_labels_cached(m1.cache, d.group, rm)
                req3 == IF m2.http THEN << Request("meta", meta_url(d.group), rm) >>
                        ELSE << >>
            IN  IF m2.raised
                THEN [raised |-> "MetadataError", df |-> << >>, fcache |-> f.cache,
                      lcache |-> m2.cache, hits |-> << url >>,
                      http |-> req1 \o req2 \o req3,
                      vars |-> vars]
                ELSE IF \E k \in 1..Len(vars) : ~HasCode(m2.labels, vars[k])
                THEN [raised |-> "KeyError", df |-> << >>, fcache |-> f.cache,
                      lcache |-> m2.cache, hits |-> << url >>,
                      http |-> req1 \o req2 \o req3,
                      vars |-> vars]
                ELSE [raised |-> "", fcache |-> f.cache, lcache |-> m2.cache,
                      df |-> RenameDetailed(f.df, indicator, m2.labels, vars),
                      hits |-> << url >>, http |-> req1 \o req2 \o req3,
                      vars |-> vars]

\* The slip of taking the detailed path for every DETAILED indicator.
UseDetailedAlways(ind, wa, ws, wr) ==
    InDetailed(ind)

\* Line 137: ind in DETAILED and (want_age or want_sex or want_race).
UseDetailed(ind, wa, ws, wr) ==
    InDetailed(ind) /\ (wa \/ ws \/ wr)

(***************************************************************************)
(* Bounds of the model.                                                    *)
(***************************************************************************)

\* Indicators the multiselect holds at most when one is added.
MaxChosen ==
    2

\* Entries of a drawn metadata mapping (SpecSelect).
MaxVars ==
    2

(***************************************************************************)
(* State.                                                                  *)
(***************************************************************************)

VARIABLES
    URL_HITS,       \* the module-level list of line 38
    fetch_cache,    \* the lru_cache of fetch, of this execution of app.py
    labels_cache,   \* the cache of get_labels, of this execution of app.py
    geo_level,      \* widget state read by the handler of the Run button
    zcta_list,      \*   st.session_state["zcta_list"]
    chosen,
    want_age,
    want_sex,
    want_race,
    pc,             \* "idle", "pulling", "stopped" (st.stop), "failed", "done"
    geo,            \* the handler's local geo
    frames,         \* the handler's local frames
    df,             \* the table st.dataframe shows, << >> when none is shown
    error,          \* st.error's message or the exception that ended the run
    http_log,       \* history: the HTTP requests issued in this execution
    labelled,       \* history: the cache of get_labels as it was when Run was
                    \*   pressed, before this execution built a new one
    last_pull,      \* history: the latest pull of the current run
    sv,             \* SpecSelect: the arguments and the result of select_vars
    fetched         \* history: the URLs the cache of fetch held when Run was
                    \*   pressed, before this execution built a new one

vars ==
    << URL_HITS, fetch_cache, labels_cache, geo_level, zcta_list, chosen, want_age,
       want_sex, want_race, pc, geo, frames, df, error, http_log, labelled,
       last_pull, sv, fetched >>

GroupIds ==
    {DETAILED[k].group : k \in 1..Len(DETAILED)}

\* Lines 118-119: the indicators the multiselect holds until the user
\* changes it.
default_pick ==
    << IND_HS, IND_INCOME, IND_UNEMPLOYMENT >>

\* The indicators the modelled user adds to the multiselect: one that is
\* only in BASE_VARS and one that is also in DETAILED.
Pickable ==
    {IND_INCOME, IND_DISABILITY}

\* The options of the selectbox of line 113.
Levels ==
    {LEVEL_COUNTY, LEVEL_TRACT, LEVEL_ZCTA}

\* The texts the modelled user types into the text input of line 116.
ZctaTexts ==
    {ZCTA_EMPTY, ZCTA_SPACES, ZCTA_TAB, ZCTA_TWO}

NoPull ==
    [kind |-> "none", fallback |-> FALSE, http_ok |-> TRUE, raised |-> "",
     indicator |-> << >>, vars |-> << >>]

NoSelect ==
    [labels |-> << >>, group |-> << >>, frag |-> << >>,
     status |-> 200, want_age |-> FALSE, want_sex |-> FALSE, want_race |-> FALSE,
     called |-> FALSE, out |-> << >>]

\* The session after app.py has been executed once, for the first
\* rendering of the page: every widget answers with its default, Run is not
\* pressed.
InitApp ==
    /\ URL_HITS = << >>
    /\ fetch_cache = << >>
    /\ labels_cache = << >>
    /\ geo_level = LEVEL_COUNTY
    /\ zcta_list = ZCTA_EMPTY
    /\ chosen = default_pick
    /\ want_age = FALSE
    /\ want_sex = FALSE
    /\ want_race = FALSE
    /\ pc = "idle"
    /\ geo = None
    /\ frames = << >>
    /\ df = << >>
    /\ error = ""
    /\ http_log = << >>
    /\ labelled = << >>
    /\ last_pull = NoPull
    /\ fetched = {}

Init ==
    /\ InitApp
    /\ sv = NoSelect

(***************************************************************************)
(* Executions of app.py.  Streamlit executes the script from its first     *)
(* line on every interaction: line 38 binds URL_HITS to a new list, the    *)
(* decorators of lines 50 and 59 build new, empty caches, and what the     *)
(* previous execution displayed is replaced by what this one displays.     *)
(***************************************************************************)

\* Lines 1-126 of an execution: the module-level state is built anew.  For
\* a press of Run the history keeps what the caches held at the press.
Execute(pressed) ==
    /\ URL_HITS' = << >>
    /\ fetch_cache' = << >>
    /\ labels_cache' = << >>
    /\ http_log' = << >>
    /\ last_pull' = NoPull
    /\ frames' = << >>
    /\ df' = << >>
    /\ fetched' = IF pressed
                  THEN {fetch_cache[k].key : k \in 1..Len(fetch_cache)}
                  ELSE {}
    /\ labelled' = IF pressed THEN labels_cache ELSE << >>

\* Streamlit acts on an interaction when the running script next calls an
\* st.* function: the loop of lines 136-141 calls none, so a handler that is
\* pulling goes on to line 153 and is stopped there, its table assembled
\* and not shown.  An exception (pd.concat on no frames among them) is
\* reported first.
Interruptible ==
    \/ pc # "pulling"
    \/ Len(frames) = Len(chosen) /\ frames # << >>

\* app.py is executed with the button not pressed: the handler of line 128
\* is skipped and the page shows the widgets only.
Rerun ==
    /\ Interruptible
    /\ Execute(FALSE)
    /\ pc' = "idle"
    /\ geo' = None
    /\ error' = ""
    /\ UNCHANGED sv

\* Line 113: the user selects another geography level.  The text input is
\* rendered at the ZCTA level only (line 115) and starts empty whenever it
\* is rendered anew.
SelectLevel(level) ==
    /\ level # geo_level
    /\ geo_level' = level
    /\ zcta_list' = ZCTA_EMPTY
    /\ Rerun
    /\ UNCHANGED << chosen, want_age, want_sex, want_race >>

\* Line 116: the user commits another text in the text input.
TypeZcta(text) ==
    /\ geo_level = LEVEL_ZCTA
    /\ text # zcta_list
    /\ zcta_list' = text
    /\ Rerun
    /\ UNCHANGED << geo_level, chosen, want_age, want_sex, want_race >>

\* Line 120: the user adds an indicator to the multiselect.
Pick(ind) ==
    /\ Len(chosen) < MaxChosen
    /\ ind \notin Range(chosen)
    /\ chosen' = Append(chosen, ind)
    /\ Rerun
    /\ UNCHANGED << geo_level, zcta_list, want_age, want_sex, want_race >>

\* Line 120: the user removes the last indicator of the multiselect.
Unpick ==
    /\ chosen # << >>
    /\ chosen' = SubSeq(chosen, 1, Len(chosen) - 1)
    /\ Rerun
    /\ UNCHANGED << geo_level, zcta_list, want_age, want_sex, want_race >>

\* Lines 123-125: the user ticks or unticks one check box.
Toggle(box) ==
    /\ want_age' = (want_age # (box = 1))
    /\ want_sex' = (want_sex # (box = 2))
    /\ want_race' = (want_race # (box = 3))
    /\ Rerun
    /\ UNCHANGED << geo_level, zcta_list, chosen >>

(***************************************************************************)
(* The handler of the Run button (lines 128-161), one step per indicator.  *)
(***************************************************************************)

\* The button is pressed: app.py is executed and the handler runs its lines
\* 128-135 on the widgets as they are.
Run ==
    /\ Interruptible
    /\ Execute(TRUE)
    /\ geo' = geo_clause(geo_level, zcta_list)
    /\ IF ~Truthy(geo')
       THEN pc' = "stopped" /\ error' = "Enter at least one ZCTA."
       ELSE pc' = "pulling" /\ error' = ""
    /\ UNCHANGED << geo_level, zcta_list, chosen, want_age, want_sex, want_race,
                    sv >>

\* The effect of a pull p of indicator ind on the handler: the URL log, the
\* history, and the frame or the exception.  (The pull is bound by \E over a
\* one-element set so that it is computed once.)
AfterPull(p, kind, ind, pulled, fallback) ==
    /\ URL_HITS' = URL_HITS \o p.hits
    /\ fetch_cache' = p.fcache
    /\ http_log' = http_log \o p.http
    /\ last_pull' = [kind |-> kind, fallback |-> fallback,
                     http_ok |-> \A k \in 1..Len(p.http) : ~p.http[k].bad,
                     raised |-> p.raised, indicator |-> ind, vars |-> pulled]
    /\ IF p.raised # ""
       THEN /\ pc' = "failed"
            /\ error' = p.raised
            /\ frames' = frames
       ELSE /\ pc' = pc
            /\ error' = error
            /\ frames' = Append(frames, p.df)

\* Lines 139-141: the next indicator takes the simple path.
PullSimple(shape) ==
    /\ pc = "pulling"
    /\ Len(frames) < Len(chosen)
    /\ ~UseDetailed(chosen[Len(frames) + 1], want_age, want_sex, want_race)
    /\ \E b \in {BaseOf(chosen[Len(frames) + 1])} :
       \E p \in {pull_simple(b.code, b.ds, geo.val, geo_level, fetch_cache, shape)} :
          AfterPull(p, "simple", b.lab, << b.code >>, FALSE)
    /\ UNCHANGED << labels_cache, geo_level, zcta_list, chosen, want_age, want_sex,
                    want_race, geo, df, labelled, sv, fetched >>

\* Lines 137-138: the next indicator takes the detailed path.
PullDetailed(rm, shape) ==
    /\ pc = "pulling"
    /\ Len(frames) < Len(chosen)
    /\ UseDetailed(chosen[Len(frames) + 1], want_age, want_sex, want_race)
    /\ \E d \in {DetailedOf(chosen[Len(frames) + 1])} :
       \E p \in {pull_detailed(d.lab, geo.val, geo_level, want_age, want_sex,
                                want_race, labels_cache, fetch_cache, rm, shape)} :
          /\ AfterPull(p, "detailed", d.lab, p.vars, p.vars = << d.group \o LIT_001E >>)
          /\ labels_cache' = p.lcache
    /\ UNCHANGED << geo_level, zcta_list, chosen, want_age, want_sex, want_race, geo,
                    df, labelled, sv, fetched >>

\* Lines 143-154: every indicator is pulled; pd.concat raises on an empty
\* list of frames, otherwise the table is assembled and shown.
Finish ==
    /\ pc = "pulling"
    /\ Len(frames) = Len(chosen)
    /\ IF frames = << >>
       THEN pc' = "failed" /\ error' = "ValueError" /\ df' = df
       ELSE pc' = "done" /\ error' = error /\ df' = Assemble(frames)
    /\ UNCHANGED << URL_HITS, fetch_cache, labels_cache, geo_level, zcta_list, chosen,
                    want_age, want_sex, want_race, geo, frames, http_log, labelled,
                    last_pull, sv, fetched >>

\* The answers the metadata endpoint may give for the group of the next
\* indicator, if that indicator is in DETAILED.
NextMetaAnswers ==
    IF pc = "pulling" /\ Len(frames) < Len(chosen)
          /\ InDetailed(chosen[Len(frames) + 1])
    THEN LET d == DetailedOf(chosen[Len(frames) + 1])
         IN  MetaAnswers(d.group, d.frag)
    ELSE {}

Next ==
    \/ \E level \in Levels : SelectLevel(level)
    \/ \E text \in ZctaTexts : TypeZcta(text)
    \/ \E ind \in Pickable : Pick(ind)
    \/ Unpick
    \/ \E box \in 1..3 : Toggle(box)
    \/ Run
    \/ \E shape \in DataShapes : PullSimple(shape)
    \/ \E rm \in NextMetaAnswers, shape \in DataShapes : PullDetailed(rm, shape)
    \/ Finish

Spec ==
    Init /\ [][Next]_vars

(***************************************************************************)
(* SpecSelect: select_vars on drawn arguments.                             *)
(***************************************************************************)

\* The mappings of up to MaxVars entries of a group's pool, in any order.
Mappings(group_id, frag) ==
    {m \in UNION {[1..n -> Range(Pool(group_id, frag))] : n \in 0..MaxVars} :
        Distinct(m)}

InitSelect ==
    /\ InitApp
    /\ \E d \in {DETAILED[1], DETAILED[2]} :
       \E m \in Mappings(d.group, d.frag) :
       \E st \in Statuses, wa \in BOOLEAN, ws \in BOOLEAN, wr \in BOOLEAN :
          sv = [labels |-> m, group |-> d.group, frag |-> d.frag, status |-> st,
                want_age |-> wa, want_sex |-> ws, want_race |-> wr,
                called |-> FALSE, out |-> << >>]

\* select_vars(group_id, measure_fragment, want_age, want_sex, want_race) in
\* an execution of app.py: line 68 calls get_labels(group_id), which asks the
\* metadata endpoint (it answers sv.status with the variables sv.labels) and
\* stores the mapping in its cache; lines 69-84 select from that mapping.
SelectVars ==
    /\ ~sv.called
    /\ \E r \in {[status |-> sv.status, wellformed |-> TRUE, variables |-> sv.labels]} :
       \E m \in {get_labels_cached(labels_cache, sv.group, r)} :
          /\ labels_cache' = m.cache
          /\ http_log' = http_log
                 \o (IF m.http THEN << Request("meta", meta_url(sv.group), r) >>
                     ELSE << >>)
          /\ sv' = [sv EXCEPT !.called = TRUE,
                              !.out = select_vars(m.labels, sv.group, sv.frag,
                                                  sv.want_age, sv.want_sex,
                                                  sv.want_race)]
    /\ UNCHANGED << URL_HITS, fetch_cache, geo_level, zcta_list, chosen, want_age,
                    want_sex, want_race, pc, geo, frames, df, error, labelled,
                    last_pull, fetched >>

NextSelect ==
    SelectVars

SpecSelect ==
    InitSelect /\ [][NextSelect]_vars


(***************************************************************************)
(* The claims.                                                             *)
(***************************************************************************)

\* ---- literals of the claims ----

\* "https://api.census.gov/data/2023/acs/acs5/"
C9_Prefix ==
    Text(<<"h","t","t","p","s",":","/","/","a","p","i",".","c","e","n","s","u","s",".","g","o",
           "v","/","d","a","t","a","/","2","0","2","3","/","a","c","s","/","a","c","s","5","/">>)

\* "https://api.census.gov/data/2023/acs/acs5/subject?get=NAME,S1901_C01_012E&for=county:053&in=state:53&key=f6ba77c8a37e5c068c2d7a0020f3b56899318771"
C9_IncomeCountyUrl ==
    Text(<<"h","t","t","p","s",":","/","/","a","p","i",".","c","e","n","s","u","s",".","g","o",
           "v","/","d","a","t","a","/","2","0","2","3","/","a","c","s","/","a","c","s","5","/",
           "s","u","b","j","e","c","t","?","g","e","t","=","N","A","M","E",",","S","1","9","0",
           "1","_","C","0","1","_","0","1","2","E","&","f","o","r","=","c","o","u","n","t","y",
           ":","0","5","3","&","i","n","=","s","t","a","t","e",":","5","3","&","k","e","y","=",
           "f","6","b","a","7","7","c","8","a","3","7","e","5","c","0","6","8","c","2","d","7",
           "a","0","0","2","0","f","3","b","5","6","8","9","9","3","1","8","7","7","1">>)

\* "Median household income ($) (S1901_C01_012E)"
C9_IncomeColumn ==
    Text(<<"M","e","d","i","a","n"," ","h","o","u","s","e","h","o","l","d"," ","i","n","c","o",
           "m","e"," ","(","$",")"," ","(","S","1","9","0","1","_","C","0","1","_","0","1","2",
           "E",")">>)

\* s.startswith(p)
StartsWith(s, p) ==
    StartsAt(s, p, 1)

\* Whether a text is empty or holds whitespace only.
IsBlank(s) ==
    \A k \in 1..Len(s) : s[k] \in Whitespace

\* The URLs of the HTTP requests issued so far in the current run, in order.
RequestedUrls ==
    [k \in 1..Len(http_log) |-> http_log[k].url]

\* C1 (as stated): a run started at the ZCTA level with an empty or
\* whitespace-only ZCTA input halts with the validation failure, before any
\* HTTP request, and the URL Log is empty.
C1_BlankZctaHalts ==
    (pc # "idle" /\ geo_level = LEVEL_ZCTA /\ IsBlank(zcta_list))
        => /\ pc = "stopped"
           /\ error = "Enter at least one ZCTA."
           /\ URL_HITS = << >>
           /\ http_log = << >>

\* The number of metadata requests issued for a group in this execution.
MetaRequests(g) ==
    Cardinality({k \in 1..Len(http_log) :
                    http_log[k].kind = "meta" /\ http_log[k].url = meta_url(g)})

\* C2 (as stated): once get_labels(group_id) has succeeded, every later
\* call, in the same run or in the next one, issues no request and returns
\* the mapping of that success: a group whose mapping the cache held when
\* Run was pressed is not requested again, and a group whose mapping the
\* cache holds now was requested exactly once.
C2_ExactlyOneRequest ==
    \A g \in GroupIds :
        /\ CacheHas(labelled, g) =>
               /\ MetaRequests(g) = 0
               /\ CacheHas(labels_cache, g) =>
                      CacheGet(labels_cache, g) = CacheGet(labelled, g)
        /\ (CacheHas(labels_cache, g) /\ ~CacheHas(labelled, g)) =>
               MetaRequests(g) = 1

\* Whether a label shows an axis of a requested break-down.
ShowsRequestedAxis(lab, wa, ws, wr) ==
    \/ wa /\ Contains(lab, LIT_AGE)
    \/ ws /\ Contains(lab, LIT_SEX)
    \/ wr /\ Contains(lab, LIT_RACE)
    \/ wr /\ Contains(lab, LIT_ETHNICITY)

\* Whether a code of sv.labels is an estimate whose label holds the fragment
\* and shows an axis of a requested break-down.
Wanted(code) ==
    /\ HasCode(sv.labels, code)
    /\ code # << >> /\ code[Len(code)] = ord("E")
    /\ Contains(LabelOf(sv.labels, code), sv.frag)
    /\ ShowsRequestedAxis(LabelOf(sv.labels, code), sv.want_age, sv.want_sex,
                          sv.want_race)

\* The position of a code in sv.labels.
PositionOf(code) ==
    CHOOSE k \in 1..Len(sv.labels) : sv.labels[k].code = code

\* C3 (as stated): every code select_vars returns has a label that contains
\* the fragment and an axis marker of a requested break-down, and no code is
\* returned twice.
C3_EveryCodeMatches ==
    sv.called => /\ \A k \in 1..Len(sv.out) : Wanted(sv.out[k])
                 /\ Distinct(sv.out)

\* C3 (amended): no code is returned twice, and every code select_vars
\* returns has a label that contains the fragment and an axis marker of a
\* requested break-down, unless no variable matched and the result is the
\* fallback list of the one code {group_id}_001E.
C3_EveryCodeMatchesOrFallback ==
    sv.called => /\ Distinct(sv.out)
                 /\ \/ \A k \in 1..Len(sv.out) : Wanted(sv.out[k])
                    \/ /\ sv.out = << sv.group \o LIT_001E >>
                       /\ \A k \in 1..Len(sv.labels) : ~Wanted(sv.labels[k].code)

\* C3 witness: two break-downs requested and two codes returned.
C3_Witness ==
    /\ sv.called
    /\ sv.want_age /\ sv.want_race
    /\ Len(sv.out) = 2
    /\ \A k \in 1..Len(sv.out) : Wanted(sv.out[k])

\* C4: select_vars never returns an empty list; with no flag set or no
\* matching variable it returns exactly [{group_id}_001E]; otherwise it
\* returns the matching codes, all of them, in the order of the mapping.
C4_NeverEmpty ==
    sv.called =>
        /\ sv.out # << >>
        /\ IF \A k \in 1..Len(sv.labels) : ~Wanted(sv.labels[k].code)
           THEN sv.out = << sv.group \o LIT_001E >>
           ELSE /\ \A k \in 1..Len(sv.out) : Wanted(sv.out[k])
                /\ \A k \in 1..Len(sv.labels) :
                       Wanted(sv.labels[k].code) => sv.labels[k].code \in Range(sv.out)
                /\ \A i, j \in 1..Len(sv.out) :
                       i < j => PositionOf(sv.out[i]) < PositionOf(sv.out[j])

\* C4 witness: a break-down was requested, the mapping has estimates with
\* the fragment, none of them on a requested axis, and the fallback code
\* came back.
C4_Witness ==
    /\ sv.called
    /\ sv.want_sex
    /\ \E k \in 1..Len(sv.labels) : Contains(sv.labels[k].label, sv.frag)
    /\ sv.out = << sv.group \o LIT_001E >>

\* C5 (as stated): the URL Log is the sequence of the URLs requested over
\* HTTP so far in the run, data and metadata requests alike, and holds no
\* URL of an earlier run.
C5_LogIsEveryRequest ==
    URL_HITS = RequestedUrls

\* C6 (as stated): the cache of fetch has one entry per URL and never more
\* than 256; and a URL the cache held when Run was pressed, being among the
\* 256 most recently used URLs, is not requested over HTTP again.
C6_NoSecondRequest ==
    /\ Len(fetch_cache) <= 256
    /\ \A i, j \in 1..Len(fetch_cache) :
           fetch_cache[i].key = fetch_cache[j].key => i = j
    /\ Cardinality(fetched) <= 256
           => \A k \in 1..Len(http_log) :
                  http_log[k].kind = "data" => http_log[k].url \notin fetched

\* The positions <<frame, column>> of the columns of the frames.
FrameColumns ==
    UNION {{<< i, j >> : j \in 1..Len(frames[i])} : i \in 1..Len(frames)}

\* Whether column a comes before column b in concatenation order.
Before(a, b) ==
    a[1] < b[1] \/ (a[1] = b[1] /\ a[2] < b[2])

\* Whether column a is the first of its name in concatenation order.
FirstOfName(a) ==
    \A b \in FrameColumns :
        frames[b[1]][b[2]].name = frames[a[1]][a[2]].name => ~Before(b, a)

\* The name the assembled table shows for a column name of the frames.
ShownName(name) ==
    IF \E k \in 1..Len(BASE_VARS) : BASE_VARS[k].code = name
    THEN LET k == CHOOSE k \in 1..Len(BASE_VARS) : BASE_VARS[k].code = name
         IN  BASE_VARS[k].lab \o Text(<< " ", "(" >>) \o name \o Text(<< ")" >>)
    ELSE name

\* C7: the assembled table has pairwise distinct column names, also after
\* the renaming of the base codes; it has one column per column name of the
\* frames, and that column is the first of its name in concatenation order.
C7_UniqueFirstColumns ==
    pc = "done" =>
        /\ \A i, j \in 1..Len(df) : df[i].name = df[j].name => i = j
        /\ Len(df) = Cardinality({frames[a[1]][a[2]].name : a \in FrameColumns})
        /\ \A a \in FrameColumns :
               FirstOfName(a) =>
                   \E k \in 1..Len(df) :
                       /\ df[k].name = ShownName(frames[a[1]][a[2]].name)
                       /\ df[k].data = frames[a[1]][a[2]].data

\* C7 witness: two frames were assembled, both with a NAME column, one of
\* them with a column name twice.
C7_Witness ==
    /\ pc = "done"
    /\ Len(frames) = 2
    /\ \A i \in 1..2 : \E j \in 1..Len(frames[i]) : frames[i][j].name = COL_NAME
    /\ \E i \in 1..2 : \E j, k \in 1..Len(frames[i]) :
           j # k /\ frames[i][j].name = frames[i][k].name

\* C8 (as stated): an HTTP answer with a non-success status or a malformed
\* body ends the run: it is the run's last request, the run has failed, no
\* table is shown, and neither cache holds anything for that call.
C8_FailFast ==
    \A k \in 1..Len(http_log) :
        http_log[k].bad =>
            /\ pc = "failed"
            /\ k = Len(http_log)
            /\ df = << >>
            /\ ~CacheHas(fetch_cache, http_log[k].url)
            /\ \A g \in GroupIds :
                   meta_url(g) = http_log[k].url => ~CacheHas(labels_cache, g)

\* C9: a run with no break-down flag that succeeded logged exactly one URL
\* per chosen indicator, in the order chosen, of the form
\* {dataset}?get=NAME,{code}&{geo}&key={key}; it issued no metadata request;
\* and the table has a column "{display name} ({code})" per indicator.
C9_SimplePath ==
    (pc = "done" /\ ~want_age /\ ~want_sex /\ ~want_race) =>
        /\ Len(URL_HITS) = Len(chosen)
        /\ \A k \in 1..Len(chosen) :
               \E e \in Range(BASE_VARS) :
                   /\ e.lab = chosen[k]
                   /\ URL_HITS[k] = C9_Prefix \o e.ds
                                       \o Text(<< "?", "g", "e", "t", "=", "N", "A", "M", "E", "," >>)
                                       \o e.code \o Text(<< "&" >>) \o geo.val
                                       \o Text(<< "&", "k", "e", "y", "=" >>) \o API_KEY
                   /\ \E c \in 1..Len(df) :
                          df[c].name = chosen[k] \o Text(<< " ", "(" >>) \o e.code
                                           \o Text(<< ")" >>)
        /\ \A k \in 1..Len(http_log) : http_log[k].kind = "data"
        /\ (geo_level = LEVEL_COUNTY /\ chosen = << IND_INCOME >>)
               => /\ URL_HITS = << C9_IncomeCountyUrl >>
                  /\ \E c \in 1..Len(df) : df[c].name = C9_IncomeColumn

\* C9 witness: a run with no flag succeeded for an indicator of DETAILED
\* followed by one that is only in BASE_VARS.
C9_Witness ==
    /\ pc = "done"
    /\ ~want_age /\ ~want_sex /\ ~want_race
    /\ chosen = << IND_DISABILITY, IND_INCOME >>
    /\ Len(URL_HITS) = 2

\* C10 (as stated): a detailed pull in which no variable matched asks for
\* {group_id}_001E and, its HTTP calls succeeding, returns a table whose
\* variable column carries the short-name prefix of the indicator pulled.
C10_FallbackReturnsTable ==
    (last_pull.kind = "detailed" /\ last_pull.fallback /\ last_pull.http_ok) =>
        /\ last_pull.raised = ""
        /\ frames # << >>
        /\ \E c \in 1..Len(frames[Len(frames)]) :
               /\ frames[Len(frames)][c].data[2] = 2
               /\ StartsWith(frames[Len(frames)][c].name,
                             ShortName(last_pull.indicator) \o LIT_DASH)

=============================================================================
